---- MODULE Spec2Model ----
(***************************************************************************)
(* A model of src/src/tuple.rs: the four-field homogeneous coordinate      *)
(* Tuple {x, y, z, w: f64}, its equality, its arithmetic operators and its *)
(* geometric operations.                                                   *)
(*                                                                         *)
(* f64 is modelled by a binary floating-point format of the IEEE-754 kind, *)
(* scaled down: Precision significand bits instead of 53, a few binades    *)
(* instead of 2046, with subnormals, signed zeros, infinities, one NaN and *)
(* round-to-nearest-even on every operation.  A finite value is its sign   *)
(* and its magnitude counted in quanta of 2^-FracBits, so every operation  *)
(* is computed exactly on integers and then rounded once, as IEEE-754      *)
(* prescribes for +, -, *, / and sqrt.                                     *)
(***************************************************************************)
EXTENDS Integers, FiniteSets, Sequences, TLC

(***************************************************************************)
(* The floating-point format                                               *)
(***************************************************************************)
\* significand bits of the format (53 in f64)
Precision == 5
\* the quantum is 2^-FracBits: the smallest positive (subnormal) value
FracBits == Precision + 1
\* number of binades above the subnormal range
MaxShift == Precision + 3

Pow2(i) == 2 ^ i
\* the largest finite magnitude, in quanta
MaxN == (Pow2(Precision) - 1) * Pow2(MaxShift)
\* the magnitude of 1.0, in quanta
OneN == Pow2(FracBits)

Fin(s, n) == [c |-> 0, s |-> s, n |-> n]
Inf(s) == [c |-> 1, s |-> s, n |-> 0]
NaN == [c |-> 2, s |-> 0, n |-> 0]

IsNaN(f) == f.c = 2
IsInf(f) == f.c = 1
IsFinite(f) == f.c = 0
IsZero(f) == f.c = 0 /\ f.n = 0

\* floor(log2 n), n >= 1
Ilog2(n) == CHOOSE e \in 0..30 : Pow2(e) <= n /\ n < Pow2(e + 1)

\* distance between neighbouring representable magnitudes at magnitude n
Spacing(n) == IF n < Pow2(Precision) THEN 1 ELSE Pow2(Ilog2(n) - Precision + 1)

\* n quanta is a magnitude of the format
IsRep(n) == n <= MaxN /\ n % Spacing(n) = 0

\* the magnitude num/den (in quanta) rounded to nearest, ties to even;
\* a result above MaxN stands for overflow
RoundMag(num, den) ==
    LET fl == num \div den
    IN  IF fl >= Pow2(Precision + MaxShift) THEN MaxN + 1
        ELSE LET s == Spacing(fl)
                 lo == (fl \div s) * s
                 rem2 == 2 * (num - lo * den)
                 half == s * den
                 up == rem2 > half \/ (rem2 = half /\ (lo \div s) % 2 = 1)
             IN  IF up THEN lo + s ELSE lo

\* a rounded magnitude as a value: overflow gives an infinity
MkFin(s, r) == IF r > MaxN THEN Inf(s) ELSE Fin(s, r)

\* the signed number of quanta of a finite value
SVal(f) == IF f.s = 1 THEN 0 - f.n ELSE f.n

Abs(i) == IF i < 0 THEN 0 - i ELSE i

\* unary minus on f64: flips the sign bit
FNeg(f) == IF IsNaN(f) THEN NaN ELSE [f EXCEPT !.s = 1 - f.s]

\* f64::abs
FAbs(f) == IF IsNaN(f) THEN NaN ELSE [f EXCEPT !.s = 0]

\* f64 +
FAdd(f, g) ==
    IF IsNaN(f) \/ IsNaN(g) THEN NaN
    ELSE IF IsInf(f) /\ IsInf(g) THEN (IF f.s = g.s THEN f ELSE NaN)
    ELSE IF IsInf(f) THEN f
    ELSE IF IsInf(g) THEN g
    ELSE LET v == SVal(f) + SVal(g)
         IN  IF v = 0 THEN Fin(IF f.s = 1 /\ g.s = 1 THEN 1 ELSE 0, 0)
             ELSE MkFin(IF v < 0 THEN 1 ELSE 0, RoundMag(Abs(v), 1))

\* f64 -
FSub(f, g) == FAdd(f, FNeg(g))

\* f64 *
FMul(f, g) ==
    LET s == (f.s + g.s) % 2
    IN  IF IsNaN(f) \/ IsNaN(g) THEN NaN
        ELSE IF IsInf(f) \/ IsInf(g)
             THEN (IF IsZero(f) \/ IsZero(g) THEN NaN ELSE Inf(s))
        ELSE MkFin(s, RoundMag(f.n * g.n, OneN))

\* f64 /
FDiv(f, g) ==
    LET s == (f.s + g.s) % 2
    IN  IF IsNaN(f) \/ IsNaN(g) THEN NaN
        ELSE IF IsInf(f) THEN (IF IsInf(g) THEN NaN ELSE Inf(s))
        ELSE IF IsInf(g) THEN Fin(s, 0)
        ELSE IF IsZero(g) THEN (IF IsZero(f) THEN NaN ELSE Inf(s))
        ELSE MkFin(s, RoundMag(f.n * OneN, g.n))

\* floor(sqrt n) by bisection on lo..hi
RECURSIVE ISqrtIn(_, _, _)
ISqrtIn(n, lo, hi) ==
    IF lo >= hi THEN lo
    ELSE LET mid == (lo + hi + 1) \div 2
         IN  IF mid * mid <= n THEN ISqrtIn(n, mid, hi) ELSE ISqrtIn(n, lo, mid - 1)

ISqrt(n) == ISqrtIn(n, 0, Pow2(15))

\* f64::sqrt, correctly rounded
FSqrt(f) ==
    IF IsNaN(f) THEN NaN
    ELSE IF IsZero(f) THEN f
    ELSE IF f.s = 1 THEN NaN
    ELSE IF IsInf(f) THEN f
    ELSE LET big == f.n * OneN
             fl == ISqrt(big)
             s == Spacing(fl)
             lo == (fl \div s) * s
             mid2 == 2 * lo + s
             up == 4 * big > mid2 * mid2
                   \/ (4 * big = mid2 * mid2 /\ (lo \div s) % 2 = 1)
         IN  MkFin(0, IF up THEN lo + s ELSE lo)

\* f64::powi(2): the product x * x
FSquare(f) == FMul(f, f)

\* f64 ==
FEq(f, g) ==
    /\ ~IsNaN(f)
    /\ ~IsNaN(g)
    /\ \/ IsZero(f) /\ IsZero(g)
       \/ f = g

\* f64 <
FLt(f, g) ==
    /\ ~IsNaN(f)
    /\ ~IsNaN(g)
    /\ IF IsInf(f) THEN f.s = 1 /\ ~(IsInf(g) /\ g.s = 1)
       ELSE IF IsInf(g) THEN g.s = 0
       ELSE SVal(f) < SVal(g)

\* the literals 0.0 and 1.0
Zero == Fin(0, 0)
One == Fin(0, OneN)

(***************************************************************************)
(* Tuple and its operations                                                *)
(***************************************************************************)
\* absolute tolerance of approx_eq (1e-5 in the crate, 2^-3 at this scale:
\* above the rounding error of a few operations near 1.0, below 1.0)
EPSILON == Fin(0, Pow2(FracBits - 3))

\* approx_eq(a, b): the absolute difference is less than EPSILON
approx_eq(f, g) == FLt(FAbs(FSub(f, g)), EPSILON)

\* Tuple::new
new(x, y, z, w) == [x |-> x, y |-> y, z |-> z, w |-> w]

\* Tuple::point
point(x, y, z) == [x |-> x, y |-> y, z |-> z, w |-> One]

\* Tuple::vector
vector(x, y, z) == [x |-> x, y |-> y, z |-> z, w |-> Zero]

\* Tuple::is_point
is_point(t) == FEq(t.w, One)

\* is_vector with the tolerance of approx_eq applied to w
is_vector_approx(t) == approx_eq(t.w, Zero)

\* Tuple::is_vector
is_vector(t) == FEq(t.w, Zero)

\* eq with w compared within the tolerance, like x, y and z
eq_approx_w(t, cmp) ==
    /\ approx_eq(t.x, cmp.x)
    /\ approx_eq(t.y, cmp.y)
    /\ approx_eq(t.z, cmp.z)
    /\ approx_eq(t.w, cmp.w)

\* impl PartialEq for Tuple
eq(t, cmp) ==
    /\ approx_eq(t.x, cmp.x)
    /\ approx_eq(t.y, cmp.y)
    /\ approx_eq(t.z, cmp.z)
    /\ FEq(t.w, cmp.w)

\* impl Add<Tuple> for Tuple
add(t, cmp) ==
    [x |-> FAdd(t.x, cmp.x), y |-> FAdd(t.y, cmp.y),
     z |-> FAdd(t.z, cmp.z), w |-> FAdd(t.w, cmp.w)]

\* sub that leaves w alone
sub_keep_w(t, cmp) ==
    [x |-> FSub(t.x, cmp.x), y |-> FSub(t.y, cmp.y),
     z |-> FSub(t.z, cmp.z), w |-> t.w]

\* impl Sub<Tuple> for Tuple
sub(t, cmp) ==
    [x |-> FSub(t.x, cmp.x), y |-> FSub(t.y, cmp.y),
     z |-> FSub(t.z, cmp.z), w |-> FSub(t.w, cmp.w)]

\* neg that leaves z alone
neg_skip_z(t) == [x |-> FNeg(t.x), y |-> FNeg(t.y), z |-> t.z, w |-> FNeg(t.w)]

\* impl Neg for Tuple
neg(t) == [x |-> FNeg(t.x), y |-> FNeg(t.y), z |-> FNeg(t.z), w |-> FNeg(t.w)]

\* mul that leaves w alone
mul_skip_w(t, cmp) ==
    [x |-> FMul(t.x, cmp), y |-> FMul(t.y, cmp), z |-> FMul(t.z, cmp), w |-> t.w]

\* mul whose x is self.x * self.x
mul_x_by_self(t, cmp) ==
    [x |-> FMul(t.x, t.x), y |-> FMul(t.y, cmp),
     z |-> FMul(t.z, cmp), w |-> FMul(t.w, cmp)]

\* impl Mul<f64> for Tuple
mul(t, cmp) ==
    [x |-> FMul(t.x, cmp), y |-> FMul(t.y, cmp),
     z |-> FMul(t.z, cmp), w |-> FMul(t.w, cmp)]

\* impl Div<f64> for Tuple
div(t, cmp) ==
    [x |-> FDiv(t.x, cmp), y |-> FDiv(t.y, cmp),
     z |-> FDiv(t.z, cmp), w |-> FDiv(t.w, cmp)]

\* mag over x, y and z alone
mag_no_w(t) == FSqrt(FAdd(FAdd(FSquare(t.x), FSquare(t.y)), FSquare(t.z)))

\* mag without the square root
mag_no_sqrt(t) ==
    FAdd(FAdd(FAdd(FSquare(t.x), FSquare(t.y)), FSquare(t.z)), FSquare(t.w))

\* Tuple::mag
mag(t) ==
    FSqrt(FAdd(FAdd(FAdd(FSquare(t.x), FSquare(t.y)), FSquare(t.z)), FSquare(t.w)))

\* Tuple::norm
norm(t) ==
    LET m == mag(t)
    IN  [x |-> FDiv(t.x, m), y |-> FDiv(t.y, m), z |-> FDiv(t.z, m), w |-> FDiv(t.w, m)]

\* Tuple::dot
dot(t, cmp) ==
    FAdd(FAdd(FAdd(FMul(t.x, cmp.x), FMul(t.y, cmp.y)), FMul(t.z, cmp.z)),
         FMul(t.w, cmp.w))

\* cross that builds its result with the w of self
cross_keep_w(t, cmp) ==
    new(FSub(FMul(t.y, cmp.z), FMul(t.z, cmp.y)),
        FSub(FMul(t.z, cmp.x), FMul(t.x, cmp.z)),
        FSub(FMul(t.x, cmp.y), FMul(t.y, cmp.x)),
        t.w)

\* cross with the operands of its y swapped
cross_y_swapped(t, cmp) ==
    vector(FSub(FMul(t.y, cmp.z), FMul(t.z, cmp.y)),
           FSub(FMul(t.x, cmp.z), FMul(t.z, cmp.x)),
           FSub(FMul(t.x, cmp.y), FMul(t.y, cmp.x)))

\* Tuple::cross
cross(t, cmp) ==
    vector(FSub(FMul(t.y, cmp.z), FMul(t.z, cmp.y)),
           FSub(FMul(t.z, cmp.x), FMul(t.x, cmp.z)),
           FSub(FMul(t.x, cmp.y), FMul(t.y, cmp.x)))

(***************************************************************************)
(* The machine: a behaviour draws a scalar, then calls one operation of    *)
(* Tuple on operands drawn from the input sets.  A state records the call: *)
(* its operands a (self), b (cmp) and k (the f64 operand), and its result. *)
(***************************************************************************)
VARIABLES a, b, k, op, rt, rf, rb, steps

vars == <<a, b, k, op, rt, rf, rb, steps>>

\* longest sequence of additions and subtractions of SpecChain
MaxSteps == 3

NegZero == Fin(1, 0)
Half == Fin(0, OneN \div 2)
Two == Fin(0, 2 * OneN)
Three == Fin(0, 3 * OneN)
Six == Fin(0, 6 * OneN)
\* the smallest positive value
Tiny == Fin(0, 1)
\* the largest finite value
Huge == Fin(0, MaxN)
\* the successor of 1.0
OnePlusUlp == Fin(0, OneN + Spacing(OneN))
\* 1.0 + EPSILON
OnePlusEps == Fin(0, OneN + EPSILON.n)

\* the fields the operands are drawn from
SelfX == {Zero, One, FNeg(Two), Six, Tiny, Huge}
SelfY == {Zero, Two, FNeg(Three)}
SelfZ == {Zero, One}
SelfW == {Zero, One, NegZero, Tiny, NaN}
CmpX == {Zero, One, OnePlusUlp, OnePlusEps, FNeg(Three)}
CmpY == {Zero, Two, Half}
CmpZ == {Zero, FNeg(One)}
CmpW == {Zero, One, NegZero, Inf(0)}
Scalars == {Zero, One, Three, FNeg(Half), Inf(1)}

TuplesOf(X, Y, Z, W) == {new(x, y, z, w) : x \in X, y \in Y, z \in Z, w \in W}
Selfs == TuplesOf(SelfX, SelfY, SelfZ, SelfW)
Cmps == TuplesOf(CmpX, CmpY, CmpZ, CmpW)

Origin == vector(Zero, Zero, Zero)

\* a call that returns a Tuple / an f64 / a bool
RetTuple(name, t, cmp, r) ==
    /\ a' = t /\ b' = cmp /\ op' = name /\ rt' = r
    /\ steps' = 1
    /\ UNCHANGED <<k, rf, rb>>

RetFloat(name, t, cmp, r) ==
    /\ a' = t /\ b' = cmp /\ op' = name /\ rf' = r
    /\ steps' = 1
    /\ UNCHANGED <<k, rt, rb>>

RetBool(name, t, cmp, r) ==
    /\ a' = t /\ b' = cmp /\ op' = name /\ rb' = r
    /\ steps' = 1
    /\ UNCHANGED <<k, rt, rf>>

Init ==
    /\ a = Origin /\ b = Origin
    /\ k \in Scalars
    /\ op = "init"
    /\ rt = Origin /\ rf = Zero /\ rb = FALSE
    /\ steps = 0

Eq == steps = 0 /\ \E t \in Selfs, cmp \in Cmps : RetBool("eq", t, cmp, eq(t, cmp))
Add == steps = 0 /\ \E t \in Selfs, cmp \in Cmps : RetTuple("add", t, cmp, add(t, cmp))
Sub == steps = 0 /\ \E t \in Selfs, cmp \in Cmps : RetTuple("sub", t, cmp, sub(t, cmp))
Neg == steps = 0 /\ \E t \in Selfs : RetTuple("neg", t, b, neg(t))
Mul == steps = 0 /\ \E t \in Selfs : RetTuple("mul", t, b, mul(t, k))
Div == steps = 0 /\ \E t \in Selfs : RetTuple("div", t, b, div(t, k))
New == steps = 0 /\ \E t \in Selfs : RetTuple("new", t, b, new(t.x, t.y, t.z, t.w))
IsPoint == steps = 0 /\ \E t \in Selfs : RetBool("is_point", t, b, is_point(t))
IsVector == steps = 0 /\ \E t \in Selfs : RetBool("is_vector", t, b, is_vector(t))
Point == steps = 0 /\ \E t \in Selfs : RetTuple("point", t, b, point(t.x, t.y, t.z))
Vector == steps = 0 /\ \E t \in Selfs : RetTuple("vector", t, b, vector(t.x, t.y, t.z))
Mag == steps = 0 /\ \E t \in Selfs : RetFloat("mag", t, b, mag(t))
Norm == steps = 0 /\ \E t \in Selfs : RetTuple("norm", t, b, norm(t))
Dot == steps = 0 /\ \E t \in Selfs, cmp \in Cmps : RetFloat("dot", t, cmp, dot(t, cmp))
Cross == steps = 0 /\ \E t \in Selfs, cmp \in Cmps : RetTuple("cross", t, cmp, cross(t, cmp))

Next ==
    \/ Eq \/ Add \/ Sub \/ Neg \/ Mul \/ Div
    \/ New \/ IsPoint \/ IsVector \/ Point \/ Vector
    \/ Mag \/ Norm \/ Dot \/ Cross

Spec == Init /\ [][Next]_vars

(***************************************************************************)
(* The chain: a caller that keeps to the permitted combinations of points  *)
(* and vectors.  It starts from a point or a vector and repeatedly adds or *)
(* subtracts one, the result rt of a step being the left operand of the    *)
(* next.  Adding two points is possible (the code does not reject it) and  *)
(* is not one of the permitted combinations.                               *)
(***************************************************************************)
ChainX == {Zero, One, Huge}
ChainY == {Zero, FNeg(One)}
ChainZ == {Zero, Half}

Points == {point(x, y, z) : x \in ChainX, y \in ChainY, z \in ChainZ}
Vectors == {vector(x, y, z) : x \in ChainX, y \in ChainY, z \in ChainZ}

Chain(name, cmp, r) ==
    /\ a' = rt /\ b' = cmp /\ op' = name /\ rt' = r
    /\ steps' = steps + 1
    /\ UNCHANGED <<k, rf, rb>>

InitChain ==
    /\ a = Origin /\ b = Origin
    /\ k = One
    /\ op = "init"
    /\ rt \in Points \cup Vectors
    /\ rf = Zero /\ rb = FALSE
    /\ steps = 0

AddPointVector ==
    /\ steps < MaxSteps /\ is_point(rt)
    /\ \E v \in Vectors : Chain("add", v, add(rt, v))

AddVectorVector ==
    /\ steps < MaxSteps /\ is_vector(rt)
    /\ \E v \in Vectors : Chain("add", v, add(rt, v))

SubPointPoint ==
    /\ steps < MaxSteps /\ is_point(rt)
    /\ \E p \in Points : Chain("sub", p, sub(rt, p))

SubPointVector ==
    /\ steps < MaxSteps /\ is_point(rt)
    /\ \E v \in Vectors : Chain("sub", v, sub(rt, v))

SubVectorVector ==
    /\ steps < MaxSteps /\ is_vector(rt)
    /\ \E v \in Vectors : Chain("sub", v, sub(rt, v))

AddPointPoint ==
    /\ steps < MaxSteps /\ is_point(rt)
    /\ \E p \in Points : Chain("add", p, add(rt, p))

NextChain ==
    \/ AddPointVector \/ AddVectorVector
    \/ SubPointPoint \/ SubPointVector \/ SubVectorVector
    \/ AddPointPoint

SpecChain == InitChain /\ [][NextChain]_vars

(***************************************************************************)
(* Properties                                                              *)
(***************************************************************************)
\* the exact distance of two finite values, in quanta
Dist(f, g) == Abs(SVal(f) - SVal(g))

\* two values that are finite and less than EPSILON apart
Near(f, g) == IsFinite(f) /\ IsFinite(g) /\ Dist(f, g) < EPSILON.n

\* two values that are finite and more than EPSILON apart
Far(f, g) == IsFinite(f) /\ IsFinite(g) /\ Dist(f, g) > EPSILON.n

\* C1: a == b holds iff x, y and z are each approximately equal (absolute
\* difference less than EPSILON) and w is exactly equal: fields less than
\* EPSILON apart with equal w compare equal, a field more than EPSILON apart
\* makes them unequal, and a different w makes them unequal however small
\* the difference.
C1_EqApproxXyzExactW ==
    op = "eq" =>
        /\ rb <=> (/\ approx_eq(a.x, b.x) /\ approx_eq(a.y, b.y)
                   /\ approx_eq(a.z, b.z) /\ FEq(a.w, b.w))
        /\ (Near(a.x, b.x) /\ Near(a.y, b.y) /\ Near(a.z, b.z) /\ FEq(a.w, b.w)) => rb
        /\ (Far(a.x, b.x) \/ Far(a.y, b.y) \/ Far(a.z, b.z)) => ~rb
        /\ ~FEq(a.w, b.w) => ~rb

\* equal though x differs (by less than EPSILON)
C1_Witness_EqualWithinTolerance ==
    op = "eq" /\ rb /\ a.x # b.x /\ Near(a.x, b.x)

\* unequal only because of a difference of one quantum in w
C1_Witness_UnequalByTinyW ==
    /\ op = "eq" /\ ~rb
    /\ a.x = b.x /\ a.y = b.y /\ a.z = b.z
    /\ Near(a.w, b.w) /\ Dist(a.w, b.w) = 1

\* C3: vector(x, y, z) has w exactly 0, is a vector and no point; point(x, y, z)
\* has w exactly 1, is a point and no vector; is_point(t) iff t.w == 1.0 and
\* is_vector(t) iff t.w == 0.0, so no Tuple is both and a Tuple with another
\* w is neither.
C3_FactoriesAndClassification ==
    /\ op = "vector" =>
        /\ rt = [x |-> a.x, y |-> a.y, z |-> a.z, w |-> Zero]
        /\ is_vector(rt) /\ ~is_point(rt)
    /\ op = "point" =>
        /\ rt = [x |-> a.x, y |-> a.y, z |-> a.z, w |-> One]
        /\ is_point(rt) /\ ~is_vector(rt)
    /\ op = "is_point" => (rb <=> (IsFinite(a.w) /\ SVal(a.w) = OneN))
    /\ op = "is_vector" => (rb <=> (IsFinite(a.w) /\ SVal(a.w) = 0))
    /\ op \in {"is_point", "is_vector"} =>
        /\ ~(is_point(a) /\ is_vector(a))
        /\ (~IsFinite(a.w) \/ SVal(a.w) \notin {0, OneN}) =>
               (~is_point(a) /\ ~is_vector(a))

\* a Tuple whose w is one quantum from 0 is classified as no vector
C3_Witness_TinyWNotVector ==
    op = "is_vector" /\ ~rb /\ a.w = Tiny

\* a Tuple whose w is -0.0 is classified as a vector: -0.0 == 0.0 in f64
C3_Witness_NegZeroWIsVector ==
    op = "is_vector" /\ rb /\ a.w = NegZero

\* C4: whatever the w of a and b, a.cross(b) has w exactly 0 and
\* x, y, z = (a.y*b.z - a.z*b.y, a.z*b.x - a.x*b.z, a.x*b.y - a.y*b.x),
\* which do not change when the w of a or of b changes.
C4_CrossIsVectorOfXyz ==
    op = "cross" =>
        /\ rt.w = Zero
        /\ is_vector(rt)
        /\ rt.x = FSub(FMul(a.y, b.z), FMul(a.z, b.y))
        /\ rt.y = FSub(FMul(a.z, b.x), FMul(a.x, b.z))
        /\ rt.z = FSub(FMul(a.x, b.y), FMul(a.y, b.x))
        /\ \A w1 \in SelfW, w2 \in CmpW :
               cross([a EXCEPT !.w = w1], [b EXCEPT !.w = w2]) = rt

\* the cross product of two Tuples that are no vectors, with a non-zero result
C4_Witness_CrossOfNonVectors ==
    /\ op = "cross" /\ ~is_vector(a) /\ ~is_vector(b)
    /\ IsNaN(a.w) /\ IsInf(b.w)
    /\ ~IsZero(rt.x) /\ ~IsZero(rt.y) /\ ~IsZero(rt.z)

\* C2: addition and subtraction are component-wise on all four fields, so
\* point + vector is a point, vector + vector a vector, point - point a
\* vector, point - vector a point, vector - vector a vector, and
\* point + point has w = 2 and is neither; every value built from points and
\* vectors by the permitted combinations alone is a point or a vector.
C2_PointVectorLaws ==
    /\ op = "add" => rt = [x |-> FAdd(a.x, b.x), y |-> FAdd(a.y, b.y),
                           z |-> FAdd(a.z, b.z), w |-> FAdd(a.w, b.w)]
    /\ op = "sub" => rt = [x |-> FSub(a.x, b.x), y |-> FSub(a.y, b.y),
                           z |-> FSub(a.z, b.z), w |-> FSub(a.w, b.w)]
    /\ (op = "add" /\ is_point(a) /\ is_vector(b)) => is_point(rt)
    /\ (op = "add" /\ is_vector(a) /\ is_vector(b)) => is_vector(rt)
    /\ (op = "sub" /\ is_point(a) /\ is_point(b)) => is_vector(rt)
    /\ (op = "sub" /\ is_point(a) /\ is_vector(b)) => is_point(rt)
    /\ (op = "sub" /\ is_vector(a) /\ is_vector(b)) => is_vector(rt)
    /\ (op = "add" /\ is_point(a) /\ is_point(b)) =>
           (FEq(rt.w, Two) /\ ~is_point(rt) /\ ~is_vector(rt))
    /\ ~(op = "add" /\ is_point(a) /\ is_point(b)) =>
           (is_point(rt) \/ is_vector(rt))

\* a point minus a point at the end of a chain of MaxSteps steps
C2_Witness_ChainEndsInVector ==
    /\ steps = MaxSteps /\ op = "sub"
    /\ is_point(a) /\ is_point(b) /\ is_vector(rt)
    /\ a.x # One /\ a.x # Zero

\* f64 <=
FLe(f, g) == FLt(f, g) \/ FEq(f, g)

\* the operation is exact: finite operands and a result that needs no rounding
ExactAdd(f, g) == IsFinite(f) /\ IsFinite(g) /\ IsRep(Abs(SVal(f) + SVal(g)))
ExactSub(f, g) == ExactAdd(f, FNeg(g))
ExactMul(f, g) ==
    /\ IsFinite(f) /\ IsFinite(g)
    /\ (f.n * g.n) % OneN = 0
    /\ IsRep((f.n * g.n) \div OneN)

\* x, y and z are finite
FiniteXyz(t) == IsFinite(t.x) /\ IsFinite(t.y) /\ IsFinite(t.z)

\* C5 as claimed: a.cross(b) == -(b.cross(a)) for all Tuples a and b
C5_Original_AntiCommutative ==
    op = "cross" => eq(rt, neg(cross(b, a)))

\* C5: a.cross(b) == -(b.cross(a)) under the Tuple equality for all Tuples a
\* and b whose cross product has finite x, y and z; the w of the negation is
\* -0.0, which compares equal to 0.0.
C5_AntiCommutativeWhenFinite ==
    (op = "cross" /\ FiniteXyz(rt)) =>
        /\ eq(rt, neg(cross(b, a)))
        /\ neg(cross(b, a)).w = NegZero

\* a finite cross product with no zero field
C5_Witness_FiniteCross ==
    /\ op = "cross" /\ FiniteXyz(rt)
    /\ ~IsZero(rt.x) /\ ~IsZero(rt.y) /\ ~IsZero(rt.z)

\* a + b, a * s and b * s need no rounding, and neither does (a + b) * s
DistribExact(f, g, s) ==
    /\ ExactAdd(f, g) /\ ExactMul(f, s) /\ ExactMul(g, s)
    /\ ExactMul(FAdd(f, g), s)

\* all four fields are finite
FiniteTuple(t) == FiniteXyz(t) /\ IsFinite(t.w)

\* C6 as claimed: (a + b) * k == a*k + b*k for all Tuples a, b and scalars k
\* (stated here for finite operands with finite results only, where neither
\* NaN nor an infinity is involved)
C6_Original_Distributes ==
    (/\ op = "add"
     /\ FiniteTuple(a) /\ FiniteTuple(b) /\ IsFinite(k)
     /\ FiniteTuple(mul(rt, k)) /\ FiniteTuple(add(mul(a, k), mul(b, k)))) =>
        eq(mul(rt, k), add(mul(a, k), mul(b, k)))

\* C6: (a + b) * k == a*k + b*k under the Tuple equality, on all four fields,
\* whenever the sums a + b and the products a*k, b*k and (a + b)*k are exact
\* (computed without rounding) in every field.
C6_DistributesWhenExact ==
    (/\ op = "add"
     /\ DistribExact(a.x, b.x, k) /\ DistribExact(a.y, b.y, k)
     /\ DistribExact(a.z, b.z, k) /\ DistribExact(a.w, b.w, k)) =>
        /\ eq(mul(rt, k), add(mul(a, k), mul(b, k)))
        /\ FEq(mul(rt, k).w, add(mul(a, k), mul(b, k)).w)

\* an exact case with a scalar other than 0 and 1 and non-zero fields
C6_Witness_ExactDistribution ==
    /\ op = "add" /\ k = Three
    /\ DistribExact(a.x, b.x, k) /\ DistribExact(a.y, b.y, k)
    /\ DistribExact(a.z, b.z, k) /\ DistribExact(a.w, b.w, k)
    /\ ~IsZero(a.x) /\ ~IsZero(b.x) /\ ~IsZero(rt.x) /\ ~IsZero(rt.y)
    /\ ~IsZero(rt.z) /\ ~IsZero(rt.w)

\* x^2 + y^2 + z^2 and its square root, as f64 computes them
SumSq3(t) == FAdd(FAdd(FSquare(t.x), FSquare(t.y)), FSquare(t.z))
Len3(t) == FSqrt(SumSq3(t))
SumSq4(t) == FAdd(SumSq3(t), FSquare(t.w))

\* C7 as claimed: mag is the square root of x^2 + y^2 + z^2 + w^2, the
\* magnitude of a point differs from the 3D length of its x, y, z, mag is
\* the 3D length when w = 0, and mag(-a) = mag(a)
C7_Original_Mag ==
    op = "mag" =>
        /\ rf = FSqrt(SumSq4(a))
        /\ is_point(a) => rf # Len3(a)
        /\ is_vector(a) => rf = Len3(a)
        /\ mag(neg(a)) = rf

\* C7: mag(a) is the square root of x^2 + y^2 + z^2 + w^2 over all four
\* fields; it is the 3D length when w = 0; mag(-a) = mag(a); and the
\* magnitude of a point is never below the 3D length of its x, y, z and is
\* above it whenever x^2 + y^2 + z^2 <= 1 (beyond that, rounding can absorb
\* the w^2 = 1 and the two coincide).
C7_MagOverFourFields ==
    op = "mag" =>
        /\ rf = FSqrt(SumSq4(a))
        /\ (is_point(a) /\ ~IsNaN(rf)) =>
               /\ FLe(Len3(a), rf)
               /\ FLe(SumSq3(a), One) => FLt(Len3(a), rf)
        /\ is_vector(a) => rf = Len3(a)
        /\ mag(neg(a)) = rf

\* a point away from the origin whose magnitude is above its 3D length
C7_Witness_PointAboveLen3 ==
    /\ op = "mag" /\ is_point(a)
    /\ ~IsZero(a.x) /\ ~IsZero(a.y) /\ ~IsZero(a.z)
    /\ IsFinite(rf) /\ FLt(Len3(a), rf)

\* some of x, y, z is not zero
NonZeroXyz(t) == ~(IsZero(t.x) /\ IsZero(t.y) /\ IsZero(t.z))

\* a finite value of the normal range: not zero, not subnormal
IsNormal(f) == IsFinite(f) /\ f.n >= Pow2(Precision)

\* C8 as claimed: for any nonzero vector v, norm(v) divides each field by
\* mag(v), is a vector, and has magnitude 1.0 within tolerance
C8_Original_Norm ==
    (op = "norm" /\ is_vector(a) /\ NonZeroXyz(a)) =>
        /\ rt = [x |-> FDiv(a.x, mag(a)), y |-> FDiv(a.y, mag(a)),
                 z |-> FDiv(a.z, mag(a)), w |-> FDiv(a.w, mag(a))]
        /\ is_vector(rt)
        /\ approx_eq(mag(rt), One)

\* C8: for any vector v whose x^2 + y^2 + z^2 is computed as a normal number
\* (neither overflowing to infinity nor underflowing to zero or a
\* subnormal), norm(v) divides each of the four fields by mag(v), is a
\* vector, and has magnitude 1.0 within tolerance.
C8_NormOfNormalRangeVector ==
    (op = "norm" /\ is_vector(a) /\ IsNormal(SumSq4(a))) =>
        /\ rt = [x |-> FDiv(a.x, mag(a)), y |-> FDiv(a.y, mag(a)),
                 z |-> FDiv(a.z, mag(a)), w |-> FDiv(a.w, mag(a))]
        /\ is_vector(rt)
        /\ approx_eq(mag(rt), One)

\* a normalized vector whose magnitude is rounded away from 1.0, within tolerance
C8_Witness_RoundedUnit ==
    /\ op = "norm" /\ is_vector(a) /\ IsNormal(SumSq4(a))
    /\ mag(rt) # One /\ approx_eq(mag(rt), One)

\* C9 as claimed: a point times any scalar other than 1 is neither a point
\* nor a vector
C9_Original_PointTimesScalar ==
    op = "mul" =>
        /\ rt = [x |-> FMul(a.x, k), y |-> FMul(a.y, k),
                 z |-> FMul(a.z, k), w |-> FMul(a.w, k)]
        /\ (is_point(a) /\ ~FEq(k, One)) => (~is_point(rt) /\ ~is_vector(rt))

\* C9: scalar multiplication multiplies all four fields including w; for a
\* point p the w of p * k is k, so p * k is neither a point nor a vector for
\* every scalar k other than 1 and 0, and is a vector for k = 0.
C9_PointTimesScalar ==
    op = "mul" =>
        /\ rt = [x |-> FMul(a.x, k), y |-> FMul(a.y, k),
                 z |-> FMul(a.z, k), w |-> FMul(a.w, k)]
        /\ is_point(a) => rt.w = k
        /\ (is_point(a) /\ ~FEq(k, One) /\ ~FEq(k, Zero)) =>
               (~is_point(rt) /\ ~is_vector(rt))
        /\ (is_point(a) /\ FEq(k, Zero)) => is_vector(rt)

\* a point times 3 has w = 3
C9_Witness_PointTimesThree ==
    op = "mul" /\ is_point(a) /\ k = Three /\ rt.w = Three /\ ~IsZero(rt.x)

\* every product and difference of t.cross(cmp) is exact
ExactCross(t, cmp) ==
    /\ ExactMul(t.y, cmp.z) /\ ExactMul(t.z, cmp.y)
    /\ ExactMul(t.z, cmp.x) /\ ExactMul(t.x, cmp.z)
    /\ ExactMul(t.x, cmp.y) /\ ExactMul(t.y, cmp.x)
    /\ ExactSub(FMul(t.y, cmp.z), FMul(t.z, cmp.y))
    /\ ExactSub(FMul(t.z, cmp.x), FMul(t.x, cmp.z))
    /\ ExactSub(FMul(t.x, cmp.y), FMul(t.y, cmp.x))

\* every product and sum of t.dot(cmp) is exact
ExactDot(t, cmp) ==
    LET px == FMul(t.x, cmp.x)
        py == FMul(t.y, cmp.y)
        pz == FMul(t.z, cmp.z)
        pw == FMul(t.w, cmp.w)
    IN  /\ ExactMul(t.x, cmp.x) /\ ExactMul(t.y, cmp.y)
        /\ ExactMul(t.z, cmp.z) /\ ExactMul(t.w, cmp.w)
        /\ ExactAdd(px, py)
        /\ ExactAdd(FAdd(px, py), pz)
        /\ ExactAdd(FAdd(FAdd(px, py), pz), pw)

\* all four fields are zero
IsZeroTuple(t) == IsZero(t.x) /\ IsZero(t.y) /\ IsZero(t.z) /\ IsZero(t.w)

\* C10 as claimed: for all Tuples a and b, a.dot(a.cross(b)) == 0 and
\* b.dot(a.cross(b)) == 0, and a.cross(a) is the zero vector (stated here
\* for finite operands with finite cross products and finite dot products
\* only, where neither NaN nor an infinity is involved)
C10_Original_Orthogonal ==
    (/\ op = "cross"
     /\ FiniteTuple(a) /\ FiniteTuple(b) /\ FiniteTuple(rt)
     /\ IsFinite(dot(a, rt)) /\ IsFinite(dot(b, rt))
     /\ FiniteTuple(cross(a, a))) =>
        /\ FEq(dot(a, rt), Zero)
        /\ FEq(dot(b, rt), Zero)
        /\ IsZeroTuple(cross(a, a))

\* C10: a.dot(a.cross(b)) == 0 and b.dot(a.cross(b)) == 0 whenever the cross
\* product and the dot product are computed exactly (every product, sum and
\* difference finite and without rounding), and a.cross(a) is the zero
\* vector whenever the products of a's x, y, z are finite.
C10_OrthogonalWhenExact ==
    op = "cross" =>
        /\ (ExactCross(a, b) /\ ExactDot(a, rt)) => FEq(dot(a, rt), Zero)
        /\ (ExactCross(a, b) /\ ExactDot(b, rt)) => FEq(dot(b, rt), Zero)
        /\ (/\ IsFinite(FMul(a.y, a.z)) /\ IsFinite(FMul(a.z, a.x))
            /\ IsFinite(FMul(a.x, a.y))) => IsZeroTuple(cross(a, a))

\* an exact cross product with no zero field, orthogonal to both operands
C10_Witness_ExactOrthogonal ==
    /\ op = "cross"
    /\ ExactCross(a, b) /\ ExactDot(a, rt) /\ ExactDot(b, rt)
    /\ ~IsZero(rt.x) /\ ~IsZero(rt.y) /\ ~IsZero(rt.z)
    /\ ~IsZero(a.w) /\ ~IsZero(b.w)
====
